---------------------------- MODULE Spec2Model ----------------------------
(***************************************************************************)
(* PathPlannerTrajectory (pathplanner/lib/trajectory/PathPlannerTrajectory.h) *)
(*                                                                         *)
(* The trajectory object: its constructors, its accessors, the mutable     *)
(* handle getStates() hands out, and sample().  The header defines the     *)
(* constructors from pre-generated states and every accessor inline; the   *)
(* path constructor, sample, generateStates, forwardAccelPass,             *)
(* reverseAccelPass and desaturateWheelSpeeds are only declared there, and *)
(* are modelled from the design specification (sections 4.1 to 4.5, 7).    *)
(*                                                                         *)
(* Numbers are fixed point: a velocity, a position and an acceleration are *)
(* integers in their own unit, a time is an integer number of ticks, and a *)
(* square root or a quotient is rounded down, as a floating-point result   *)
(* is rounded to a representable value.                                    *)
(***************************************************************************)
EXTENDS Integers, Sequences, FiniteSets

VARIABLES
    pc,               \* "unconstructed" | "live" | "failed" | "undefined": the object's lifecycle
    how,              \* which constructor built it: "none" | "default" | "states" | "events" | "path"
    m_states,         \* std::vector<PathPlannerTrajectoryState> m_states
    m_eventCommands,  \* std::vector<std::pair<second_t, shared_ptr<Command>>> m_eventCommands
    given,            \* the states vector handed to a constructor from pre-generated states
    path,             \* the points of the path handed to the constructor from a path
    config,           \* the RobotConfig handed to the constructor from a path
    built,            \* m_states as it was when the constructor returned
    handle,           \* a caller holds the reference getStates() returned
    writes,           \* how many writes callers made through that reference
    call,             \* the last member call: [op, t]
    ret,              \* what it returned: [st, tm, ev]
    robot,            \* desaturation: the RobotConfig (drivetrain kind, kinematics, limit)
    desired,          \* desaturation: the desired chassis speeds
    results           \* desaturation: the command after each application

tvars == <<pc, how, m_states, m_eventCommands, given, path, config, built, handle, writes, call, ret>>
dvars == <<robot, desired, results>>
vars == <<tvars, dvars>>

----------------------------------------------------------------------------
(* Bounds of the model *)

MaxLen == 2        \* states of a pre-generated vector
MaxPoints == 3     \* points of a path
MaxTime == 2       \* largest timestamp of a pre-generated state
MaxVel == 2        \* largest velocity: a starting speed, a max velocity
MaxWrites == 1     \* writes through the getStates() reference
MaxSpeed == 2      \* largest |vx|, |vy| of a desired chassis speed
MaxOmega == 1      \* largest |omega| of a desired chassis speed
MaxModuleSpeed == 2 \* largest maxModuleSpeed of a RobotConfig
Applications == 2  \* successive applications of desaturation to one command

\* ticks per second: every quotient 2*ds/(v0+v1) with v0+v1 <= 4 is exact
TimeScale == 3 * 4

----------------------------------------------------------------------------
(* Values *)

Min(a, b) == IF a <= b THEN a ELSE b
Abs(a) == IF a >= 0 THEN a ELSE -a

\* PathPlannerTrajectoryState, the fields the trajectory's operations read
\* (design spec, section 3): time, pose (the arc-length position stands for
\* the field pose), linearVelocity, curvature and the state's constraints.
TrajectoryState(tm, p, v, k, mv) ==
    [time |-> tm, pose |-> p, linearVelocity |-> v, curvature |-> k, maxVelocity |-> mv]

\* The states a caller hands to the constructor from pre-generated states,
\* any timestamps, in any order.
PregeneratedState ==
    { TrajectoryState(tm, 0, v, 0, MaxVel) : tm \in 0..MaxTime, v \in 0..1 }

PregeneratedStates ==
    UNION { [1..n -> PregeneratedState] : n \in 0..MaxLen }

\* (timestamp, command) pairs; the command is an opaque handle
EventCommands == { << <<1, "cmdA">> >>, << <<0, "cmdA">>, <<2, "cmdB">> >> }

\* What reading element 0 or size()-1 of an empty vector may yield
\* (undefined behaviour): nothing at all (a crash), or any state.
\* The states a caller assigns through the getStates() reference
WrittenState == { TrajectoryState(tm, 0, 1, 0, MaxVel) : tm \in {0, MaxTime} }

UndefinedRead == { <<>> } \cup { <<s>> : s \in PregeneratedState }

NoReturn == [st |-> <<>>, tm |-> 0, ev |-> <<>>]
NoCall == [op |-> "none", t |-> 0]

\* A point of the path (design spec, section 3): arc-length position, signed
\* curvature and the max velocity active at the point.
PathPoint ==
    [position : 0..1, curvature : {-1, 0}, maxVelocity : 0..MaxVel]

Paths == UNION { [1..n -> PathPoint] : n \in 0..MaxPoints }

\* RobotConfig: the limits the velocity profile reads
RobotConfig ==
    [maxAcceleration : 0..1, maxCentripetalAcceleration : 0..1]

NoConfig == [maxAcceleration |-> 0, maxCentripetalAcceleration |-> 0]

----------------------------------------------------------------------------
(* Accessors, PathPlannerTrajectory.h lines 71 to 129.  An index is the      *)
(* C++ index (from 0); a TLA+ sequence starts at 1.                          *)

getEventCommands == m_eventCommands

getStates == m_states

\* m_states[index + 1]: the index is off by one (the last index is kept in range)
getStateOffByOne(index) ==
    m_states[IF index + 2 <= Len(m_states) THEN index + 2 ELSE Len(m_states)]

getState(index) == m_states[index + 1]

\* m_states.back() where m_states[0] is meant
getInitialStateBack == m_states[Len(m_states)]

getInitialState == m_states[0 + 1]

\* m_states[m_states.size()]: one past the end, which reads whatever lies there
getEndStatePastEnd == TrajectoryState(MaxTime + 1, 0, 0, 0, 0)

getEndState == m_states[(Len(m_states) - 1) + 1]

getTotalTime == getEndState.time

getInitialPose == getInitialState.pose

----------------------------------------------------------------------------
(* sample, declared at PathPlannerTrajectory.h line 137; design spec 4.5, 7 *)

lerp(a, b, num, den) == a + ((b - a) * num) \div den

\* prev.interpolate(cur, (t - prev.time) / (cur.time - prev.time))
interpolate(prev, cur, t) ==
    LET num == t - prev.time
        den == cur.time - prev.time
    IN  [time |-> t,
         pose |-> lerp(prev.pose, cur.pose, num, den),
         linearVelocity |-> lerp(prev.linearVelocity, cur.linearVelocity, num, den),
         curvature |-> lerp(prev.curvature, cur.curvature, num, den),
         maxVelocity |-> cur.maxVelocity]

\* The search over the time sequence: the first index whose state is not
\* before t. It exists for every t <= getTotalTime.
bracketIdx(t) ==
    CHOOSE i \in 0..(Len(m_states) - 1) :
        /\ getState(i).time >= t
        /\ \A j \in 0..(i - 1) : getState(j).time < t

sample(t) ==
    IF t < 0 THEN getInitialState
    ELSE IF t > getTotalTime THEN getEndState
    ELSE LET i == bracketIdx(t)
             cur == getState(i)
         IN  IF cur.time = t \/ i = 0 THEN cur
             ELSE interpolate(getState(i - 1), cur, t)

----------------------------------------------------------------------------
(* The constructor from a path, declared at lines 62 to 64, and the passes  *)
(* declared at lines 142 to 152; design spec 4.1 to 4.3, 7                  *)

isqrt(n) == CHOOSE r \in 0..n : r * r <= n /\ n < (r + 1) * (r + 1)

\* sqrt(a_max_centripetal / |curvature|), for a curvature other than zero
curvatureSpeedBound(k, cfg) == isqrt(cfg.maxCentripetalAcceleration \div Abs(k))

\* the ceiling without the centripetal bound
ceilingNoCurvature(point, cfg) == point.maxVelocity

\* The per-point speed ceiling of 4.1: the max velocity active at the point
\* and the centripetal bound, which is unbounded when curvature is zero
ceiling(point, cfg) ==
    IF point.curvature = 0 THEN point.maxVelocity
    ELSE Min(point.maxVelocity, curvatureSpeedBound(point.curvature, cfg))

\* Malformed input (section 7): an empty point sequence, arc length that is
\* not non-decreasing, a RobotConfig with a non-positive limit.
malformed(points, cfg) ==
    \/ Len(points) = 0
    \/ \E i \in 1..(Len(points) - 1) : points[i + 1].position < points[i].position
    \/ cfg.maxAcceleration <= 0
    \/ cfg.maxCentripetalAcceleration <= 0

\* One state per path point, its velocity at the point's ceiling
generateStates(points, cfg) ==
    [i \in 1..Len(points) |->
        TrajectoryState(0, points[i].position, ceiling(points[i], cfg),
                        points[i].curvature, points[i].maxVelocity)]

\* v[i] = min(v[i], sqrt(v[i-1]^2 + 2 a ds)), i = 1 .. size-1.  a is the
\* RobotConfig's maximum acceleration: the share of it that curvature takes
\* is left open by 4.2, and any share only lowers the velocities reached.
RECURSIVE forwardFrom(_, _, _)
forwardFrom(states, cfg, i) ==
    IF i > Len(states) - 1 THEN states
    ELSE LET prev == states[(i - 1) + 1]
             cur == states[i + 1]
             ds == cur.pose - prev.pose
             reach == isqrt(prev.linearVelocity * prev.linearVelocity
                            + 2 * cfg.maxAcceleration * ds)
         IN  forwardFrom([states EXCEPT ![i + 1].linearVelocity =
                                            Min(cur.linearVelocity, reach)],
                         cfg, i + 1)

forwardAccelPass(states, cfg) == forwardFrom(states, cfg, 1)

\* v[i] = min(v[i], sqrt(v[i+1]^2 + 2 a ds)), i = size-2 .. 1: the starting
\* state's velocity is fixed (4.2) and is not revised
RECURSIVE reverseFrom(_, _, _)
reverseFrom(states, cfg, i) ==
    IF i < 1 THEN states
    ELSE LET next == states[(i + 1) + 1]
             cur == states[i + 1]
             ds == next.pose - cur.pose
             reach == isqrt(next.linearVelocity * next.linearVelocity
                            + 2 * cfg.maxAcceleration * ds)
         IN  reverseFrom([states EXCEPT ![i + 1].linearVelocity =
                                            Min(cur.linearVelocity, reach)],
                         cfg, i - 1)

\* the reverse pass left out
reverseAccelPassSkipped(states, cfg) == states

reverseAccelPass(states, cfg) == reverseFrom(states, cfg, Len(states) - 2)

\* dt = ds / ((v[i] + v[i+1]) / 2), zero on a zero-length or zero-velocity
\* segment (the guarded division of 4.3)
deltaTime(prev, cur) ==
    LET ds == cur.pose - prev.pose
        sumV == prev.linearVelocity + cur.linearVelocity
    IN  IF ds = 0 \/ sumV = 0 THEN 0 ELSE (2 * ds * TimeScale) \div sumV

\* Timestamps integrated forward from time = 0 at the first state
RECURSIVE timeFrom(_, _)
timeFrom(states, i) ==
    IF i > Len(states) - 1 THEN states
    ELSE timeFrom([states EXCEPT ![i + 1].time =
                       states[(i - 1) + 1].time + deltaTime(states[(i - 1) + 1], states[i + 1])],
                  i + 1)

integrateTime(states) == timeFrom(states, 1)

\* PathPlannerTrajectory(path, startingSpeeds, startingRotation, config):
\* build, fix the starting velocity, forward pass, reverse pass, timestamps
generate(points, startingSpeed, cfg) ==
    LET s0 == generateStates(points, cfg)
        s1 == [s0 EXCEPT ![1].linearVelocity = startingSpeed]
    IN  integrateTime(reverseAccelPass(forwardAccelPass(s1, cfg), cfg))

----------------------------------------------------------------------------
(* Constructors, PathPlannerTrajectory.h lines 30 to 64 *)

\* PathPlannerTrajectory() { }: both vectors are default-initialised
defaultCtor == <<>>

\* the member initialiser is left out: m_states stays empty
statesCtorDropped(states) == <<>>

\* m_states(states): the member is copy-initialised from the argument
statesCtor(states) == states

\* m_eventCommands(eventCommands)
eventsCtor(eventCommands) == eventCommands

Constructed(kind, states, events, arg, points, cfg) ==
    /\ pc' = "live"
    /\ how' = kind
    /\ m_states' = states
    /\ m_eventCommands' = events
    /\ given' = arg
    /\ path' = points
    /\ config' = cfg
    /\ built' = states
    /\ UNCHANGED <<handle, writes, call, ret, dvars>>

DefaultCtor ==
    /\ pc = "unconstructed"
    /\ Constructed("default", defaultCtor, defaultCtor, <<>>, <<>>, NoConfig)

StatesEventsCtor ==
    /\ pc = "unconstructed"
    /\ \E states \in PregeneratedStates, eventCommands \in EventCommands :
           Constructed("events", statesCtor(states), eventsCtor(eventCommands),
                       states, <<>>, NoConfig)

StatesCtor ==
    /\ pc = "unconstructed"
    /\ \E states \in PregeneratedStates :
           Constructed("states", statesCtor(states), defaultCtor, states, <<>>, NoConfig)

\* The constructor from a path: malformed input is rejected before any
\* state is built (section 7); otherwise the generated states are stored.
PathCtor ==
    /\ pc = "unconstructed"
    /\ \E points \in Paths, startingSpeed \in 0..MaxVel, cfg \in RobotConfig :
           IF malformed(points, cfg)
           THEN /\ pc' = "failed"
                /\ how' = "path"
                /\ path' = points
                /\ config' = cfg
                /\ UNCHANGED <<m_states, m_eventCommands, given, built,
                               handle, writes, call, ret, dvars>>
           ELSE Constructed("path", generate(points, startingSpeed, cfg), defaultCtor,
                            <<>>, points, cfg)

----------------------------------------------------------------------------
(* Member calls on a constructed trajectory.  A call that reads m_states[0] *)
(* or m_states[size() - 1] of an empty vector, or m_states[index] past the  *)
(* end, is undefined behaviour: it may crash or return anything.            *)

Returns(op, t, r) ==
    /\ call' = [op |-> op, t |-> t]
    /\ ret' = r
    /\ UNCHANGED <<pc, how, m_states, m_eventCommands, given, path, config, built, writes, dvars>>

Undefined(op, t) ==
    /\ pc' = "undefined"
    /\ call' = [op |-> op, t |-> t]
    /\ \E r \in UndefinedRead : ret' = [NoReturn EXCEPT !.st = r]
    /\ UNCHANGED <<how, m_states, m_eventCommands, given, path, config, built, handle, writes, dvars>>

CallGetEventCommands ==
    /\ pc = "live"
    /\ Returns("getEventCommands", 0, [NoReturn EXCEPT !.ev = getEventCommands])
    /\ UNCHANGED handle

\* getStates() returning std::move(m_states): the stored vector is left empty
CallGetStatesMoved ==
    /\ pc = "live"
    /\ call' = [op |-> "getStates", t |-> 0]
    /\ ret' = [NoReturn EXCEPT !.st = m_states]
    /\ m_states' = <<>>
    /\ handle' = TRUE
    /\ UNCHANGED <<pc, how, m_eventCommands, given, path, config, built, writes, dvars>>

\* returns std::vector<PathPlannerTrajectoryState>&: the caller now holds a
\* reference to the stored vector itself
CallGetStates ==
    /\ pc = "live"
    /\ Returns("getStates", 0, [NoReturn EXCEPT !.st = getStates])
    /\ handle' = TRUE

CallGetState ==
    /\ pc = "live"
    /\ \E index \in 0..(MaxPoints - 1) :
           IF index < Len(m_states)
           THEN /\ Returns("getState", index, [NoReturn EXCEPT !.st = <<getState(index)>>])
                /\ UNCHANGED handle
           ELSE Undefined("getState", index)

CallGetInitialState ==
    /\ pc = "live"
    /\ IF Len(m_states) > 0
       THEN /\ Returns("getInitialState", 0, [NoReturn EXCEPT !.st = <<getInitialState>>])
            /\ UNCHANGED handle
       ELSE Undefined("getInitialState", 0)

CallGetEndState ==
    /\ pc = "live"
    /\ IF Len(m_states) > 0
       THEN /\ Returns("getEndState", 0, [NoReturn EXCEPT !.st = <<getEndState>>])
            /\ UNCHANGED handle
       ELSE Undefined("getEndState", 0)

CallGetTotalTime ==
    /\ pc = "live"
    /\ IF Len(m_states) > 0
       THEN /\ Returns("getTotalTime", 0, [NoReturn EXCEPT !.tm = getTotalTime])
            /\ UNCHANGED handle
       ELSE Undefined("getTotalTime", 0)

CallGetInitialPose ==
    /\ pc = "live"
    /\ IF Len(m_states) > 0
       THEN /\ Returns("getInitialPose", 0, [NoReturn EXCEPT !.tm = getInitialPose])
            /\ UNCHANGED handle
       ELSE Undefined("getInitialPose", 0)

\* The times a caller asks for: before the start, each stored timestamp,
\* and just after each (between two states, or past the end)
QueryTimes ==
    { -1 } \cup { m_states[i].time : i \in 1..Len(m_states) }
           \cup { m_states[i].time + 1 : i \in 1..Len(m_states) }

CallSample ==
    /\ pc = "live"
    /\ \E t \in QueryTimes :
           IF Len(m_states) > 0
           THEN /\ Returns("sample", t, [NoReturn EXCEPT !.st = <<sample(t)>>])
                /\ UNCHANGED handle
           ELSE Undefined("sample", t)

\* A caller post-processes the trajectory through the reference getStates()
\* returned: it assigns one element of the stored vector.
WriteThroughHandle ==
    /\ pc = "live"
    /\ handle
    /\ writes < MaxWrites
    /\ \E i \in 1..Len(m_states), s \in WrittenState :
           /\ m_states' = [m_states EXCEPT ![i] = s]
           /\ writes' = writes + 1
           /\ call' = [op |-> "write", t |-> i - 1]
           /\ ret' = NoReturn
    /\ UNCHANGED <<pc, how, m_eventCommands, given, path, config, built, handle, dvars>>

----------------------------------------------------------------------------
(* Kinematics and wheel-speed desaturation: toSwerveModuleStates and        *)
(* toChassisSpeeds, lines 170 to 203; desaturateWheelSpeeds, declared at    *)
(* lines 154 to 159, design spec 4.4.                                       *)
(*                                                                          *)
(* Scaling by maxModuleSpeed / hypot(..) leaves the integers, so a speed    *)
(* carries the square of its scale factor as a fraction: the chassis        *)
(* speeds [vx, vy, omega, num, den] are (vx, vy, omega) * sqrt(num / den),  *)
(* and a module state [x, y, num, den] is the velocity vector               *)
(* (x, y) * sqrt(num / den): its speed is the vector's length and its angle *)
(* the vector's direction.  Fractions are compared by cross-multiplying.    *)

ChassisSpeeds(vx, vy, omega) ==
    [vx |-> vx, vy |-> vy, omega |-> omega, num |-> 1, den |-> 1]

\* Module positions relative to the robot centre: four modules of a square
\* swerve base, two wheels of a differential base
SwerveLocations ==
    << [x |-> 1, y |-> 1], [x |-> 1, y |-> -1], [x |-> -1, y |-> 1], [x |-> -1, y |-> -1] >>

DiffLocations == << [x |-> 0, y |-> 1], [x |-> 0, y |-> -1] >>

Robots ==
    [isHolonomic : BOOLEAN, swerveKinematics : {SwerveLocations},
     diffKinematics : {DiffLocations}, maxModuleSpeed : 1..MaxModuleSpeed]

NoRobot ==
    [isHolonomic |-> FALSE, swerveKinematics |-> SwerveLocations,
     diffKinematics |-> DiffLocations, maxModuleSpeed |-> 1]

\* The commands a caller asks of a drivetrain: a differential base has no
\* sideways velocity
Commands(cfg) ==
    { ChassisSpeeds(vx, vy, omega) :
        vx \in (-MaxSpeed)..MaxSpeed,
        vy \in IF cfg.isHolonomic THEN (-MaxSpeed)..MaxSpeed ELSE {0},
        omega \in (-MaxOmega)..MaxOmega }

\* kinematics.ToSwerveModuleStates(chassisSpeeds): each module moves with
\* the chassis velocity plus omega x (its position)
ToSwerveModuleStates(kinematics, chassisSpeeds) ==
    [m \in 1..Len(kinematics) |->
        [x |-> chassisSpeeds.vx - chassisSpeeds.omega * kinematics[m].y,
         y |-> chassisSpeeds.vy + chassisSpeeds.omega * kinematics[m].x,
         num |-> chassisSpeeds.num, den |-> chassisSpeeds.den]]

\* kinematics.ToChassisSpeeds(states): the least-squares inverse, which for
\* module positions centred on the robot is the mean velocity and the mean
\* moment
ToChassisSpeeds(kinematics, states) ==
    LET n == Len(kinematics)
        RECURSIVE sum(_, _)
        sum(f(_), m) == IF m = 0 THEN 0 ELSE f(m) + sum(f, m - 1)
        sx(m) == states[m].x
        sy(m) == states[m].y
        mom(m) == kinematics[m].x * states[m].y - kinematics[m].y * states[m].x
        arm(m) == kinematics[m].x * kinematics[m].x + kinematics[m].y * kinematics[m].y
    IN  [vx |-> sum(sx, n) \div n,
         vy |-> sum(sy, n) \div n,
         omega |-> sum(mom, n) \div sum(arm, n),
         num |-> states[1].num, den |-> states[1].den]

\* both branches convert with swerveKinematics
toSwerveModuleStatesSwerveOnly(cfg, chassisSpeeds) ==
    ToSwerveModuleStates(cfg.swerveKinematics, chassisSpeeds)

\* both branches convert with diffKinematics
toChassisSpeedsDiffOnly(cfg, states) ==
    ToChassisSpeeds(cfg.diffKinematics, << states[1], states[2] >>)

toSwerveModuleStates(cfg, chassisSpeeds) ==
    IF cfg.isHolonomic
    THEN ToSwerveModuleStates(cfg.swerveKinematics, chassisSpeeds)
    ELSE ToSwerveModuleStates(cfg.diffKinematics, chassisSpeeds)

toChassisSpeeds(cfg, states) ==
    IF cfg.isHolonomic
    THEN ToChassisSpeeds(cfg.swerveKinematics, << states[1], states[2], states[3], states[4] >>)
    ELSE ToChassisSpeeds(cfg.diffKinematics, << states[1], states[2] >>)

\* The square of a module's speed, as a fraction
speedSq(m) == [n |-> (m.x * m.x + m.y * m.y) * m.num, d |-> m.den]

fracLeq(a, b) == a.n * b.d <= b.n * a.d

overLimit(m, maxModuleSpeed) == speedSq(m).n > maxModuleSpeed * maxModuleSpeed * speedSq(m).d

\* If any module is over maxModuleSpeed, every module's speed is multiplied
\* by maxModuleSpeed / (the fastest module's speed); angles are kept
desaturateWheelSpeeds(moduleStates, maxModuleSpeed) ==
    LET fastest == CHOOSE m \in 1..Len(moduleStates) :
                       \A o \in 1..Len(moduleStates) :
                           fracLeq(speedSq(moduleStates[o]), speedSq(moduleStates[m]))
        realMax == speedSq(moduleStates[fastest])
    IN  IF overLimit(moduleStates[fastest], maxModuleSpeed)
        THEN [m \in 1..Len(moduleStates) |->
                 [moduleStates[m] EXCEPT
                     !.num = @ * maxModuleSpeed * maxModuleSpeed * realMax.d,
                     !.den = @ * realMax.n]]
        ELSE moduleStates

\* Desaturation of a chassis-speed command (4.4): to module states, scaled,
\* and back to chassis speeds
desaturate(cfg, chassisSpeeds) ==
    toChassisSpeeds(cfg,
        desaturateWheelSpeeds(toSwerveModuleStates(cfg, chassisSpeeds), cfg.maxModuleSpeed))

DesaturateCommand ==
    /\ Len(results) < Applications
    /\ results' = Append(results,
                         desaturate(robot, IF results = <<>> THEN desired
                                           ELSE results[Len(results)]))
    /\ UNCHANGED <<tvars, robot, desired>>

----------------------------------------------------------------------------
Init ==
    /\ pc = "unconstructed"
    /\ how = "none"
    /\ m_states = <<>>
    /\ m_eventCommands = <<>>
    /\ given = <<>>
    /\ path = <<>>
    /\ config = NoConfig
    /\ built = <<>>
    /\ handle = FALSE
    /\ writes = 0
    /\ call = NoCall
    /\ ret = NoReturn
    /\ robot = NoRobot
    /\ desired = ChassisSpeeds(0, 0, 0)
    /\ results = <<>>

\* The trajectory as the header defines it: the constructors from nothing and
\* from pre-generated states, every member call, and the writes callers make
\* through the getStates() reference.
Next ==
    \/ DefaultCtor
    \/ StatesEventsCtor
    \/ StatesCtor
    \/ CallGetEventCommands
    \/ CallGetStates
    \/ CallGetState
    \/ CallGetInitialState
    \/ CallGetEndState
    \/ CallGetTotalTime
    \/ CallGetInitialPose
    \/ CallSample
    \/ WriteThroughHandle

Spec == Init /\ [][Next]_vars

\* Construction and the read-only queries: a trajectory generated from a
\* path, or built from pre-generated states, and then queried.
NextBuild ==
    \/ PathCtor
    \/ StatesCtor
    \/ CallGetInitialState
    \/ CallGetEndState
    \/ CallGetTotalTime
    \/ CallSample

SpecBuild == Init /\ [][NextBuild]_vars

\* Desaturation of any command of any drivetrain, applied repeatedly
InitDesat ==
    /\ pc = "unconstructed"
    /\ how = "none"
    /\ m_states = <<>>
    /\ m_eventCommands = <<>>
    /\ given = <<>>
    /\ path = <<>>
    /\ config = NoConfig
    /\ built = <<>>
    /\ handle = FALSE
    /\ writes = 0
    /\ call = NoCall
    /\ ret = NoReturn
    /\ robot \in Robots
    /\ desired \in Commands(robot)
    /\ results = <<>>

NextDesat == DesaturateCommand

SpecDesat == InitDesat /\ [][NextDesat]_vars

----------------------------------------------------------------------------
(* Properties *)

NonDecreasing(states) ==
    \A i \in 1..(Len(states) - 1) : states[i].time <= states[i + 1].time

Sampled == pc = "live" /\ call.op = "sample" /\ Len(m_states) >= 1

\* C1: sample(t) of a trajectory with at least one state never fails; for
\* t < 0 it returns the first stored state, for t past the last state's time
\* it returns the last stored state.
C1_SampleClamp ==
    (call.op = "sample" /\ Len(m_states) >= 1) =>
        /\ pc = "live"
        /\ Len(ret.st) = 1
        /\ call.t < 0 => ret.st = << m_states[1] >>
        /\ call.t > m_states[Len(m_states)].time => ret.st = << m_states[Len(m_states)] >>

C1_Witness ==
    /\ Sampled
    /\ Len(m_states) = 2
    /\ m_states[1] # m_states[2]
    /\ call.t > m_states[2].time
    /\ ret.st = << m_states[2] >>

\* C2, as stated: sample(states[i].time) returns states[i] for every index i
\* of a trajectory with non-decreasing timestamps, also when a neighbour
\* shares the timestamp.
C2_SampleExactEveryIndex ==
    (Sampled /\ NonDecreasing(m_states)) =>
        \A i \in 1..Len(m_states) :
            m_states[i].time = call.t => ret.st = << m_states[i] >>

\* C2, amended: on a trajectory with non-decreasing timestamps,
\* sample(states[i].time) returns a stored state with that timestamp, not an
\* interpolated one; it is states[i] whenever every state sharing the
\* timestamp equals states[i].
C2_SampleExactUnlessShared ==
    (Sampled /\ NonDecreasing(m_states)) =>
        \A i \in 1..Len(m_states) :
            m_states[i].time = call.t =>
                /\ \E j \in 1..Len(m_states) :
                       m_states[j].time = call.t /\ ret.st = << m_states[j] >>
                /\ (\A j \in 1..Len(m_states) :
                        m_states[j].time = call.t => m_states[j] = m_states[i])
                   => ret.st = << m_states[i] >>

C2_Witness ==
    /\ Sampled
    /\ Len(m_states) = 2
    /\ m_states[1].time < m_states[2].time
    /\ m_states[1].linearVelocity # m_states[2].linearVelocity
    /\ call.t = m_states[2].time
    /\ ret.st = << m_states[2] >>

C4_MonotonicTime ==
    pc = "live" =>
        /\ Len(m_states) >= 1 => m_states[1].time = 0
        /\ NonDecreasing(m_states)

\* C4, amended: a trajectory generated from a path has time = 0 at its first
\* state and non-decreasing timestamps; a trajectory constructed from
\* pre-generated states stores exactly the states it was given, whatever
\* their timestamps.
C4_GeneratedMonotonicTime ==
    /\ (pc = "live" /\ how = "path") =>
           m_states[1].time = 0 /\ NonDecreasing(m_states)
    /\ (pc = "live" /\ how = "states") => m_states = given

C4_Witness ==
    /\ pc = "live"
    /\ how = "path"
    /\ Len(m_states) = 3
    /\ m_states[1].time = m_states[2].time
    /\ m_states[2].time < m_states[3].time

\* v[j]^2 - v[i]^2 <= 2 a_max ds for the states i, i+1 of a generated trajectory
Reachable(i, j) ==
    m_states[j].linearVelocity * m_states[j].linearVelocity
        - m_states[i].linearVelocity * m_states[i].linearVelocity
    <= 2 * config.maxAcceleration * Abs(m_states[j].pose - m_states[i].pose)

WithinCeilings(s) ==
    /\ s.linearVelocity <= s.maxVelocity
    /\ \/ s.curvature = 0
       \/ s.linearVelocity * s.linearVelocity * Abs(s.curvature)
              <= config.maxCentripetalAcceleration

\* C6, as stated: every state of a generated trajectory, the first included,
\* is within the curvature-derived bound and the max velocity of its point.
C6_CeilingEveryState ==
    (pc = "live" /\ how = "path") =>
        \A i \in 1..Len(m_states) : WithinCeilings(m_states[i])

\* C6, amended: every state after the first is within both bounds; the
\* first state's velocity is the caller's starting speed, whatever the
\* bounds of its point.
C6_CeilingButStart ==
    (pc = "live" /\ how = "path") =>
        \A i \in 2..Len(m_states) : WithinCeilings(m_states[i])

C6_Witness ==
    /\ pc = "live"
    /\ how = "path"
    /\ ~WithinCeilings(m_states[1])
    /\ Len(m_states) >= 2
    /\ m_states[2].curvature # 0
    /\ m_states[2].maxVelocity = MaxVel
    /\ m_states[2].linearVelocity = 1

\* The module states the robot's drivetrain needs for a chassis speed
moduleStatesOf(cfg, chassisSpeeds) ==
    ToSwerveModuleStates(IF cfg.isHolonomic THEN cfg.swerveKinematics
                         ELSE cfg.diffKinematics,
                         chassisSpeeds)

Exceeds(cfg, chassisSpeeds) ==
    \E m \in DOMAIN moduleStatesOf(cfg, chassisSpeeds) :
        overLimit(moduleStatesOf(cfg, chassisSpeeds)[m], cfg.maxModuleSpeed)

AtLimit(cfg, chassisSpeeds) ==
    \E m \in DOMAIN moduleStatesOf(cfg, chassisSpeeds) :
        LET q == speedSq(moduleStatesOf(cfg, chassisSpeeds)[m])
        IN  q.n = cfg.maxModuleSpeed * cfg.maxModuleSpeed * q.d

\* after = k * before for one factor k > 0
SameFactor(after, before) ==
    /\ after.vx * before.vy = after.vy * before.vx
    /\ after.vx * before.omega = after.omega * before.vx
    /\ after.vy * before.omega = after.omega * before.vy
    /\ after.vx * before.vx >= 0 /\ (after.vx = 0 <=> before.vx = 0)
    /\ after.vy * before.vy >= 0 /\ (after.vy = 0 <=> before.vy = 0)
    /\ after.omega * before.omega >= 0 /\ (after.omega = 0 <=> before.omega = 0)
    /\ after.num > 0

\* a and b are the same speeds
SameSpeeds(a, b) ==
    /\ SameFactor(a, b)
    /\ \A c \in {"vx", "vy", "omega"} :
           a[c] * a[c] * a.num * b.den = b[c] * b[c] * b.num * a.den

Before(k) == IF k = 1 THEN desired ELSE results[k - 1]

C8_Idempotent ==
    /\ \A k \in 2..Len(results) : SameSpeeds(results[k], results[k - 1])
    /\ (Len(results) >= 1 /\ ~Exceeds(robot, desired)) => SameSpeeds(results[1], desired)

C8_Witness ==
    /\ Len(results) = 2
    /\ robot.isHolonomic
    /\ Exceeds(robot, desired)
    /\ ~SameSpeeds(results[1], desired)
    /\ SameSpeeds(results[2], results[1])

\* C9: a path of one point and a valid RobotConfig give a trajectory, not a
\* failure: one state, total time 0, the initial state is the end state, and
\* sample returns that state at every time.
C9_SinglePoint ==
    (how = "path" /\ Len(path) = 1 /\ ~malformed(path, config)) =>
        /\ pc = "live"
        /\ Len(m_states) = 1
        /\ getTotalTime = 0
        /\ getInitialState = getEndState
        /\ \A t \in QueryTimes : sample(t) = m_states[1]
        /\ call.op = "sample" => ret.st = << m_states[1] >>
        /\ call.op = "getTotalTime" => ret.tm = 0

C9_Witness ==
    /\ pc = "live"
    /\ how = "path"
    /\ Len(path) = 1
    /\ call.op = "sample"
    /\ call.t > 0
    /\ ret.st = << m_states[1] >>

\* C10, as stated: no constructed trajectory has an empty state sequence,
\* and no accessor is evaluated on zero states.
C10_NeverEmpty ==
    /\ pc = "live" => Len(m_states) >= 1
    /\ pc # "undefined"

============================================================================
